---- MODULE Spec2Model ----
(***************************************************************************)
(* One profiling session of AndroidProfileAutomation (src/main.py): the    *)
(* coordinator run() as a sequential process with a program counter, the   *)
(* background sampler (simpleperf) as a second process, and the device     *)
(* command channel as a log of the commands issued.                        *)
(*                                                                         *)
(* Time is counted in whole seconds since the sampler was spawned          *)
(* (elapsed); a time.sleep(n) adds exactly n, a foreground command adds    *)
(* between 0 and MaxCmdSecs.                                               *)
(*                                                                         *)
(* An Exception (OSError from subprocess/open, KeyError, RuntimeError) or  *)
(* a KeyboardInterrupt can be raised while any step of the try body of     *)
(* run() executes; the step then has no effect.                            *)
(***************************************************************************)
EXTENDS Integers, Sequences, FiniteSets, TLC

None == "None"

\* ------------------------------------------------------------------ bounds
\* Longest time, in seconds, a foreground device command takes.
MaxCmdSecs == 1

\* ------------------------------------------------------- program constants
DefaultDuration == 6
DefaultWarmupDuration == 26
GraceSecsFp == 2
GraceSecsJava == 4
KillSettleSecs == 2
ClearSettleSecs == 3
TabSettleSecs == 3
WarmupSettleSecs == 10
NumWarmupTabs == 4
ErrorExitCode == 1

\* --------------------------------------------------------- session inputs
\* [android_profiling] tables of the configuration file: with and without
\* a duration key.
FileConfigs ==
    { [package_name |-> "org.mozilla.fenix", frequency |-> 1000],
      [package_name |-> "org.mozilla.fenix", frequency |-> 1000, duration |-> 8] }

\* Parsed command lines (argparse): --device, --duration, --frequency and
\* --out are absent or given; the three flags are store_true.
CommandLines ==
    { [device |-> None, java |-> FALSE, with_warmup |-> FALSE, profile_warmup |-> FALSE],
      [device |-> None, java |-> TRUE, with_warmup |-> FALSE, profile_warmup |-> FALSE],
      [device |-> None, java |-> FALSE, with_warmup |-> TRUE, profile_warmup |-> FALSE],
      [device |-> None, java |-> FALSE, with_warmup |-> FALSE, profile_warmup |-> TRUE],
      [device |-> None, java |-> TRUE, with_warmup |-> TRUE, profile_warmup |-> TRUE],
      [device |-> None, java |-> FALSE, with_warmup |-> FALSE, profile_warmup |-> FALSE,
       duration |-> 1, frequency |-> 4000],
      [device |-> None, java |-> TRUE, with_warmup |-> FALSE, profile_warmup |-> FALSE,
       duration |-> 30],
      [device |-> None, java |-> FALSE, with_warmup |-> FALSE, profile_warmup |-> TRUE,
       duration |-> 30],
      [device |-> None, java |-> TRUE, with_warmup |-> FALSE, profile_warmup |-> TRUE,
       duration |-> 30],
      [device |-> "emulator-5554", java |-> FALSE, with_warmup |-> FALSE,
       profile_warmup |-> FALSE],
      [device |-> None, java |-> FALSE, with_warmup |-> FALSE, profile_warmup |-> FALSE,
       out |-> "/home/user/profile.json.gz"] }

\* What adb prints for a device it may not open; the text names a web page.
NoPermissions == "no permissions; see [http://developer.android.com/tools/device.html]"

\* What `adb devices` prints below its header: per line a serial, a tab and
\* the state of the device.
AdbDevicesOutputs ==
    { << >>,
      << [serial |-> "emulator-5554", state |-> "device"] >>,
      << [serial |-> "emulator-5554", state |-> "device"],
         [serial |-> "R58M", state |-> "device"] >>,
      << [serial |-> "R58M", state |-> "offline"] >>,
      << [serial |-> "R58M", state |-> "device"],
         [serial |-> "ZX1G", state |-> NoPermissions] >> }

ConfigPathOnDevice == "/data/local/tmp/org.mozilla.fenix-geckoview-config.yaml"

VARIABLES
    pc,               \* position of the coordinator in run()
    caller,           \* call site of the shared scenario code: "prerun" | "profiled"
    tab_i,            \* loop index over WARMUP_BACKGROUND_TABS
    args,             \* the parsed command line
    config,           \* self.config
    toml_table,       \* the table as toml.load returned it, while __init__ runs
    symbol_dirs,              \* self.symbol_dirs
    breakpad_symbol_dirs,     \* self.breakpad_symbol_dirs
    breakpad_symbol_servers,  \* self.breakpad_symbol_servers
    device_id,        \* self.device_id
    with_warmup,      \* self.with_warmup
    profile_warmup,   \* self.profile_warmup
    use_java,         \* self.use_java
    debug_app_set,    \* self.debug_app_set
    yaml_file_path,   \* self.yaml_file_path
    temp_dir,         \* self.temp_dir
    output_path,      \* self.output_path
    validated,        \* validate_environment has returned normally
    verr,             \* the error validate_environment raised
    verr_list,        \* the device identifiers that error lists
    probes,           \* the probes validate_environment ran, in order
    answers,          \* what each of those probes answered, in the same order
    sampler,          \* the sampler process: "none" | "running" | "exited"
    sampler_rc,       \* its exit status once exited
    joined,           \* simpleperf_proc.wait() has returned
    sampler_cmd,      \* the sampler command line as spawned, else << >>
    elapsed,          \* seconds since the sampler was spawned, until it is joined
    log,              \* device commands issued, with the context of each
    nonzero,          \* the tools that have exited with a non-zero status
    logged,           \* what was printed or logged as a warning or an error
    cleanup_log,      \* one record per invocation of cleanup_device_state
    fault,            \* what was raised in the try body of run(), and where
    pending_exit,     \* <<code>> once sys.exit(code) was called, else << >>
    exit_status       \* <<status>> once the process has exited, else << >>

vars ==
    << pc, caller, tab_i, args, config, toml_table, symbol_dirs,
       breakpad_symbol_dirs, breakpad_symbol_servers, device_id, with_warmup,
       profile_warmup, use_java, debug_app_set, yaml_file_path, temp_dir, output_path,
       validated, verr, verr_list, probes, answers, sampler, sampler_rc, joined, sampler_cmd,
       elapsed, log, nonzero, logged, cleanup_log, fault, pending_exit,
       exit_status >>

\* Groups of variables, as the steps leave them unchanged.
valvars == << validated, verr, verr_list, probes, answers >>
samplervars == << sampler, sampler_rc, joined, sampler_cmd >>
fieldvars == << debug_app_set, yaml_file_path, temp_dir, output_path >>
endvars == << cleanup_log, fault, pending_exit, exit_status >>
reportvars == << nonzero, logged >>

\* Variables fixed by construction.
session ==
    << args, config, toml_table, symbol_dirs, breakpad_symbol_dirs,
       breakpad_symbol_servers, device_id, with_warmup, profile_warmup, use_java >>

Has(d, k) == k \in DOMAIN d

Max(a, b) == IF a >= b THEN a ELSE b

\* Python truthiness of an optional integer argument.
Truthy(d, k) == Has(d, k) /\ d[k] # 0

\* __init__: the duration the session runs with.
ResolveDuration(file, a, pw) ==
    LET base == IF Has(file, "duration") THEN file.duration
                ELSE IF pw THEN DefaultWarmupDuration ELSE DefaultDuration
    IN  IF Truthy(a, "duration") THEN a.duration ELSE base

\* __init__: the sampling frequency the session runs with.
ResolveFrequency(file, a) ==
    IF Truthy(a, "frequency") THEN a.frequency ELSE file.frequency

\* __init__: self.config after defaults and overrides.
ResolveConfig(file, a, pw) ==
    [package_name |-> file.package_name,
     duration |-> ResolveDuration(file, a, pw),
     frequency |-> ResolveFrequency(file, a)]

NoFault == [kind |-> "none", at |-> None]

\* Mutant: the warm-up pre-run is started before the validation.
run_warmup_first(w) == IF w THEN "prerun_kill_relevant_processes" ELSE "validate_environment"

\* run(): the first step of the try body.
run_first_step(w) == "validate_environment"

Init ==
    /\ caller = "prerun"
    /\ tab_i = 1
    /\ args \in CommandLines
    /\ with_warmup = args.with_warmup
    /\ profile_warmup = args.profile_warmup
    /\ use_java = args.java
    /\ pc = run_first_step(with_warmup)
    /\ \E file \in FileConfigs : config = ResolveConfig(file, args, profile_warmup)
    /\ toml_table = None
    /\ symbol_dirs = << >>
    /\ breakpad_symbol_dirs = << >>
    /\ breakpad_symbol_servers = << >>
    /\ device_id = args.device
    /\ debug_app_set = FALSE
    /\ yaml_file_path = None
    /\ temp_dir = None
    /\ output_path = IF Has(args, "out") THEN args.out ELSE "merged-profile"
    /\ validated = FALSE
    /\ verr = None
    /\ verr_list = << >>
    /\ probes = << >>
    /\ answers = << >>
    /\ sampler = "none"
    /\ sampler_rc = 0
    /\ joined = FALSE
    /\ sampler_cmd = << >>
    /\ elapsed = 0
    /\ log = {}
    /\ nonzero = {}
    /\ logged = {}
    /\ cleanup_log = << >>
    /\ fault = NoFault
    /\ pending_exit = << >>
    /\ exit_status = << >>

\* ------------------------------------------------------- command channel
\* _run_adb_command: the command as issued, with the context it runs in.
\* sel is the device selector the command line carries (None: plain `adb`).
Entry(c, sel) ==
    [cmd |-> c, at |-> pc, dev |-> sel, validated |-> validated,
     sampler |-> sampler, joined |-> joined]

\* Tools run on the host (_run_command, subprocess.run of samply).
LocalCmds ==
    { "samply import --help", "adb version", "adb devices", "samply import",
      "node merge", "samply load" }

\* Command lines built without the `-s <device>` prefix: the host tools, and
\* the argv of capture_gecko_profile, which starts "adb", "shell".
PlainCmds == LocalCmds \cup { "content read stop-and-upload" }

Selector(c) == IF c \in PlainCmds THEN None ELSE device_id

Issue(cmds) == log' = log \cup { Entry(c, Selector(c)) : c \in cmds }

\* Commands that change the state of the device.
MutatingCmds ==
    { "am force-stop", "pm clear", "pm grant", "am start-activity", "push",
      "am set-debug-app", "simpleperf record" }

\* Seconds pass only on the sampler's clock: before the spawn nothing is timed.
Tick(n) == elapsed' = IF sampler = "none" THEN 0 ELSE elapsed + n

\* ------------------------------------------------------------- validation
\* What the probes of validate_environment can answer.
ProbeResults ==
    [ samply_rc : {0, 1}, presymbolicate : BOOLEAN, adb_version_rc : {0, 1},
      adb_devices_rc : {0, 1}, devices_out : AdbDevicesOutputs, su_rc : {0, 1},
      su_test : BOOLEAN, ls_rc : {0, 1}, which_rc : {0, 1} ]

InSeq(x, s) == \E i \in 1..Len(s) : s[i] = x

\* _validate_adb_connection: `"device" in line`, for the lines modelled.
LineHasDevice(l) == l.state \in { "device", NoPermissions }

\* _validate_adb_connection: the serials of the lines that pass that test.
ParseDevices(out) ==
    LET kept == SelectSeq(out, LineHasDevice)
    IN  [ i \in 1..Len(kept) |-> kept[i].serial ]

\* The device lists the modelled outputs parse to.
DeviceLists == { ParseDevices(o) : o \in AdbDevicesOutputs }

\* Mutant: with several devices and no selector the first one is taken.
DeviceError_takes_first(devices, sel) ==
    IF Len(devices) = 0 THEN "no devices"
    ELSE IF sel # None /\ ~InSeq(sel, devices) THEN "device not found"
    ELSE "ok"

\* _validate_adb_connection after the enumeration: the device checks.
DeviceError(devices, sel) ==
    IF Len(devices) = 0 THEN "no devices"
    ELSE IF Len(devices) > 1 /\ sel = None THEN "multiple devices"
    ELSE IF sel # None /\ ~InSeq(sel, devices) THEN "device not found"
    ELSE "ok"

\* _validate_adb_connection: device_list, as written into the message of
\* the two errors that carry it.
DeviceErrorList(devices, sel) ==
    IF DeviceError(devices, sel) \in { "multiple devices", "device not found" }
    THEN devices ELSE << >>

\* Mutant: all three device probes are run before any answer is looked at.
DeviceToolsOutcome_probes_first(r) ==
    [err |-> IF r.su_rc # 0 \/ ~r.su_test THEN "no root"
             ELSE IF r.ls_rc = 0 \/ r.which_rc = 0 THEN "ok"
             ELSE "simpleperf not found",
     probes |-> << "su echo test", "ls simpleperf", "which simpleperf" >>]

\* _validate_device_tools: the probes run on the device and the error raised.
DeviceToolsOutcome(r) ==
    IF r.su_rc # 0 \/ ~r.su_test
    THEN [err |-> "no root", probes |-> << "su echo test" >>]
    ELSE IF r.ls_rc = 0
    THEN [err |-> "ok", probes |-> << "su echo test", "ls simpleperf" >>]
    ELSE [err |-> IF r.which_rc # 0 THEN "simpleperf not found" ELSE "ok",
          probes |-> << "su echo test", "ls simpleperf", "which simpleperf" >>]

\* validate_environment: the probes run, in order, the error raised ("ok":
\* none) and the device list in its message.
ValidationOutcome(r, sel) ==
    LET devices == ParseDevices(r.devices_out)
    IN  IF r.samply_rc # 0
        THEN [err |-> "samply failed", listed |-> << >>,
              probes |-> << "samply import --help" >>]
        ELSE IF ~r.presymbolicate
        THEN [err |-> "no presymbolicate", listed |-> << >>,
              probes |-> << "samply import --help" >>]
        ELSE IF r.adb_version_rc # 0
        THEN [err |-> "adb not found", listed |-> << >>,
              probes |-> << "samply import --help", "adb version" >>]
        ELSE IF r.adb_devices_rc # 0
        THEN [err |-> "adb devices failed", listed |-> << >>,
              probes |-> << "samply import --help", "adb version", "adb devices" >>]
        ELSE IF DeviceError(devices, sel) # "ok"
        THEN [err |-> DeviceError(devices, sel),
              listed |-> DeviceErrorList(devices, sel),
              probes |-> << "samply import --help", "adb version", "adb devices" >>]
        ELSE LET t == DeviceToolsOutcome(r)
             IN  [err |-> t.err, listed |-> << >>,
                  probes |-> << "samply import --help", "adb version",
                                "adb devices" >> \o t.probes]

\* subprocess.run: the exit status of a probe and, when it is zero, the
\* lines of its standard output that the code reads.
Answer(rc, out) == [rc |-> rc, out |-> IF rc = 0 THEN out ELSE << >>]

\* What the probe p answered under r.
AnswerOf(r, p) ==
    IF p = "samply import --help"
    THEN Answer(r.samply_rc, IF r.presymbolicate THEN << "--presymbolicate" >> ELSE << >>)
    ELSE IF p = "adb version" THEN Answer(r.adb_version_rc, << >>)
    ELSE IF p = "adb devices" THEN Answer(r.adb_devices_rc, r.devices_out)
    ELSE IF p = "su echo test"
    THEN Answer(r.su_rc, IF r.su_test THEN << "test" >> ELSE << >>)
    ELSE IF p = "ls simpleperf" THEN Answer(r.ls_rc, << >>)
    ELSE Answer(r.which_rc, << >>)

\* A failed check raises RuntimeError.
validate_raises(err) == err # "ok"

\* run(): what follows a successful validation.
after_validate(w) == IF w THEN "prerun_kill_relevant_processes" ELSE "setup_temp_directory"

validate_environment ==
    /\ pc = "validate_environment"
    /\ \E r \in ProbeResults :
         LET o == ValidationOutcome(r, device_id)
         IN  /\ probes' = o.probes
             /\ answers' = [ i \in 1..Len(o.probes) |-> AnswerOf(r, o.probes[i]) ]
             /\ Issue({ o.probes[i] : i \in 1..Len(o.probes) })
             /\ IF validate_raises(o.err)
                THEN /\ verr' = o.err
                     /\ verr_list' = o.listed
                     /\ fault' = [kind |-> "Exception", at |-> pc]
                     /\ pc' = "except_Exception"
                     /\ UNCHANGED validated
                ELSE /\ validated' = TRUE
                     /\ pc' = after_validate(with_warmup)
                     /\ UNCHANGED << verr, verr_list, fault >>
    /\ UNCHANGED << reportvars, caller, tab_i, session, fieldvars, samplervars,
                    elapsed, cleanup_log, pending_exit, exit_status >>

\* ------------------------------------------------------ coordinator steps

\* One foreground command followed by time.sleep(nap).
Cmd(cmd, nap, to) ==
    /\ Issue({cmd})
    /\ \E l \in 0..MaxCmdSecs : Tick(l + nap)
    /\ pc' = to
    /\ UNCHANGED << reportvars, caller, tab_i, session, fieldvars, valvars, samplervars, endvars >>

\* kill_relevant_processes, at both of its call sites in run().
kill_relevant_processes ==
    /\ pc \in { "prerun_kill_relevant_processes", "kill_relevant_processes" }
    /\ Issue({"am force-stop"})
    /\ Tick(KillSettleSecs)
    /\ pc' = IF pc = "prerun_kill_relevant_processes" THEN "wu_force_stop"
             ELSE "start_simpleperf_recording"
    /\ UNCHANGED << reportvars, caller, tab_i, session, fieldvars, valvars, samplervars, endvars >>

\* run_warmup_scenario, command by command.
run_warmup_force_stop ==
    /\ pc = "wu_force_stop"
    /\ Cmd("am force-stop", 0, "wu_pm_clear")

run_warmup_pm_clear ==
    /\ pc = "wu_pm_clear"
    /\ Cmd("pm clear", ClearSettleSecs, "wu_grant")

run_warmup_grant ==
    /\ pc = "wu_grant"
    /\ Cmd("pm grant", 0, "wu_start")

run_warmup_start ==
    /\ pc = "wu_start"
    /\ Issue({"am start-activity"})
    /\ \E l \in 0..MaxCmdSecs : Tick(l)
    /\ tab_i' = 1
    /\ pc' = "wu_tab"
    /\ UNCHANGED << reportvars, caller, session, fieldvars, valvars, samplervars, endvars >>

\* Where run_warmup_scenario returns to.
warmup_return(site) == IF site = "prerun" THEN "setup_temp_directory" ELSE "trigger_settle"

run_warmup_tab ==
    /\ pc = "wu_tab"
    /\ Issue({"am start-activity"})
    /\ \E l \in 0..MaxCmdSecs : Tick(l + TabSettleSecs)
    /\ IF tab_i < NumWarmupTabs
       THEN /\ tab_i' = tab_i + 1
            /\ pc' = "wu_tab"
       ELSE /\ tab_i' = 1
            /\ pc' = warmup_return(caller)
    /\ UNCHANGED << reportvars, caller, session, fieldvars, valvars, samplervars, endvars >>

setup_temp_directory ==
    /\ pc = "setup_temp_directory"
    /\ temp_dir' = "/tmp/android_profiling_"
    /\ pc' = "sg_push"
    /\ UNCHANGED << reportvars, caller, tab_i, session, debug_app_set, yaml_file_path,
                    output_path, valvars, samplervars, elapsed, log, endvars >>

\* setup_gecko_profiling, statement by statement.
setup_gecko_push ==
    /\ pc = "sg_push"
    /\ Cmd("push", 0, "sg_set_debug_app")

setup_gecko_set_debug_app ==
    /\ pc = "sg_set_debug_app"
    /\ Cmd("am set-debug-app", 0, "sg_record_flag")

setup_gecko_record_flag ==
    /\ pc = "sg_record_flag"
    /\ debug_app_set' = TRUE
    /\ pc' = "sg_record_path"
    /\ UNCHANGED << reportvars, caller, tab_i, session, yaml_file_path, temp_dir, output_path,
                    valvars, samplervars, elapsed, log, endvars >>

setup_gecko_record_path ==
    /\ pc = "sg_record_path"
    /\ yaml_file_path' = ConfigPathOnDevice
    /\ pc' = "kill_relevant_processes"
    /\ UNCHANGED << reportvars, caller, tab_i, session, debug_app_set, temp_dir, output_path,
                    valvars, samplervars, elapsed, log, endvars >>

\* start_simpleperf_recording: the grace delay after the spawn.
GraceDelay(java) == IF java THEN GraceSecsJava ELSE GraceSecsFp

\* Mutant: the sampler unwinds by frame pointers in either mode.
callgraph_always_fp(java) == "--call-graph fp"

\* start_simpleperf_recording: the call-graph option of the sampler.
callgraph_option(java) == IF java THEN "-g" ELSE "--call-graph fp"

\* start_simpleperf_recording: the sampler command line, option by option.
SamplerCommand(java, d, f) ==
    [binary |-> "/data/local/tmp/simpleperf", callgraph |-> callgraph_option(java),
     duration |-> d, frequency |-> f, trace_offcpu |-> TRUE, event |-> "cpu-clock",
     system_wide |-> TRUE, output |-> "/data/local/tmp/su-perf.data"]

\* Mutant: the trigger starts a recording of its own.
trigger_respawns(pw) == "start_simpleperf_recording"

\* trigger_app_startup: the scenario it runs.
trigger_entry(pw) == IF pw THEN "wu_force_stop" ELSE "su_force_stop"

\* start_simpleperf_recording (Popen, then the grace sleep), and the call of
\* trigger_app_startup that follows it in run().
start_simpleperf_recording ==
    /\ pc = "start_simpleperf_recording"
    /\ Issue({"simpleperf record"})
    /\ sampler' = "running"
    /\ sampler_cmd' = SamplerCommand(use_java, config.duration, config.frequency)
    /\ elapsed' = GraceDelay(use_java)
    /\ caller' = "profiled"
    /\ pc' = trigger_entry(profile_warmup)
    /\ UNCHANGED << reportvars, tab_i, session, fieldvars, valvars, sampler_rc, joined,
                    endvars >>

\* trigger_app_startup: the settle delay after the warm-up scenario.
trigger_settle ==
    /\ pc = "trigger_settle"
    /\ Tick(WarmupSettleSecs)
    /\ pc' = "capture_gecko_profile"
    /\ UNCHANGED << reportvars, caller, tab_i, session, fieldvars, valvars, samplervars, log, endvars >>

\* run_startup_scenario, command by command.
run_startup_force_stop ==
    /\ pc = "su_force_stop"
    /\ Cmd("am force-stop", 0, "su_grant")

run_startup_grant ==
    /\ pc = "su_grant"
    /\ Cmd("pm grant", 0, "su_start")

\* Mutant: the direct scenario returns right after the launch.
startup_no_wait(d) == 0

\* run_startup_scenario: the wait after the launch.
startup_wait(d) == d

run_startup_start ==
    /\ pc = "su_start"
    /\ Cmd("am start-activity", startup_wait(config.duration),
            "capture_gecko_profile")

\* Mutant: the stop-and-upload is run with check=True.
capture_checked(rc) == rc # 0

\* capture_gecko_profile: subprocess.run(..., check=False) raises for no
\* exit status.
capture_raises(rc) == FALSE

\* capture_gecko_profile: a non-zero exit status is printed as a warning.
capture_gecko_profile ==
    /\ pc = "capture_gecko_profile"
    /\ Issue({"content read stop-and-upload"})
    /\ \E l \in 0..MaxCmdSecs : Tick(l)
    /\ \E rc \in {0, 1} :
         /\ nonzero' = IF rc # 0 THEN nonzero \cup {"content read stop-and-upload"}
                       ELSE nonzero
         /\ IF capture_raises(rc)
            THEN /\ fault' = [kind |-> "Exception", at |-> pc]
                 /\ pc' = "except_Exception"
                 /\ UNCHANGED logged
            ELSE /\ pc' = "collect_wait"
                 /\ logged' = IF rc # 0
                              THEN logged \cup {[level |-> "stdout",
                                                 msg |-> "Warning: Failed to stop profiler"]}
                              ELSE logged
                 /\ UNCHANGED fault
    /\ UNCHANGED << caller, tab_i, session, fieldvars, valvars, samplervars,
                    cleanup_log, pending_exit, exit_status >>

\* Mutant: the join never returns.
wait_never(s) == FALSE

\* Mutant: the join polls the sampler and does not block.
wait_polls(s) == TRUE

\* simpleperf_proc.wait() returns once the sampler has exited.
wait_returns(s) == s = "exited"

\* collect_simpleperf_data: simpleperf_proc.wait() returns once the sampler
\* exited. The sampler's clock is read no more after the join and is reset.
collect_wait ==
    /\ pc = "collect_wait"
    /\ wait_returns(sampler)
    /\ joined' = TRUE
    /\ elapsed' = 0
    /\ pc' = "collect_pull"
    /\ UNCHANGED << reportvars, caller, tab_i, session, fieldvars, valvars, sampler,
                    sampler_rc, sampler_cmd, log, endvars >>

\* collect_simpleperf_data: the pulls after the join.
collect_pull ==
    /\ pc = "collect_pull"
    /\ \E aux \in BOOLEAN :
         Issue({"pull su-perf.data", "find"} \cup (IF aux THEN {"pull aux"} ELSE {}))
    /\ pc' = "process_simpleperf_data"
    /\ UNCHANGED << reportvars, caller, tab_i, session, fieldvars, valvars, samplervars,
                    elapsed, endvars >>

\* Mutant: a failed conversion is only logged, as a failed merge is.
convert_logs_only(rc) == FALSE

\* process_simpleperf_data: a non-zero exit status raises RuntimeError.
convert_raises(rc) == rc # 0

process_simpleperf_data ==
    /\ pc = "process_simpleperf_data"
    /\ Issue({"samply import"})
    /\ \E rc \in {0, 1} :
         /\ nonzero' = IF rc # 0 THEN nonzero \cup {"samply import"} ELSE nonzero
         /\ IF convert_raises(rc)
            THEN /\ fault' = [kind |-> "Exception", at |-> pc]
                 /\ pc' = "except_Exception"
            ELSE /\ pc' = "merge_profiles"
                 /\ UNCHANGED fault
    /\ UNCHANGED << logged, caller, tab_i, session, fieldvars, valvars, samplervars,
                    elapsed, cleanup_log, pending_exit, exit_status >>

\* __init__: self.simpleperf_profile_path, where the converter writes.
simpleperf_profile_path == "simpleperf-profile"

\* Mutant: a failed merge leaves the output path as it was.
merge_keeps_path(rc, path) == path

\* merge_profiles: the output path after the merge tool exited with rc.
merge_output_path(rc, path) == IF rc # 0 THEN simpleperf_profile_path ELSE path

\* merge_profiles: a non-zero exit status is logged with logger.error and
\* the session goes on.
merge_profiles ==
    /\ pc = "merge_profiles"
    /\ Issue({"node merge"})
    /\ \E rc \in {0, 1} :
         /\ output_path' = merge_output_path(rc, output_path)
         /\ nonzero' = IF rc # 0 THEN nonzero \cup {"node merge"} ELSE nonzero
         /\ logged' = IF rc # 0
                      THEN logged \cup {[level |-> "error",
                                         msg |-> "Failed to merge profiles"]}
                      ELSE logged
    /\ pc' = "handle_output"
    /\ UNCHANGED << caller, tab_i, session, debug_app_set, yaml_file_path, temp_dir,
                    valvars, samplervars, elapsed, endvars >>

\* __init__: no --out means the result is opened in the viewer.
should_open_with_samply == ~Has(args, "out")

\* handle_output; _run_samply_load swallows what the viewer raises.
handle_output ==
    /\ pc = "handle_output"
    /\ Issue(IF should_open_with_samply THEN {"samply load"} ELSE {})
    /\ pc' = "cleanup_device_state"
    /\ UNCHANGED << reportvars, caller, tab_i, session, fieldvars, valvars, samplervars,
                    elapsed, endvars >>

\* ------------------------------------------------------------ the sampler
\* simpleperf ends by itself once its --duration has run; the blocking wait
\* of collect_simpleperf_data lets that time pass.
SamplerFinish ==
    /\ sampler = "running"
    /\ pc # "exited"
    /\ elapsed >= config.duration \/ pc = "collect_wait"
    /\ sampler' = "exited"
    /\ sampler_rc' = 0
    /\ elapsed' = Max(elapsed, config.duration)
    /\ UNCHANGED << reportvars, pc, caller, tab_i, session, fieldvars, valvars, joined,
                    sampler_cmd, log, endvars >>

\* The sampler command fails to start (no simpleperf at the path, su
\* refused): it exits non-zero before the workload begins.
SamplerFail ==
    /\ sampler = "running"
    /\ pc = trigger_entry(profile_warmup)
    /\ sampler' = "exited"
    /\ sampler_rc' = 1
    /\ UNCHANGED << reportvars, pc, caller, tab_i, session, fieldvars, valvars, joined,
                    sampler_cmd, elapsed, log, endvars >>

\* ------------------------------------------------- faults in the try body
TrySteps ==
    { "validate_environment", "prerun_kill_relevant_processes", "wu_force_stop",
      "wu_pm_clear", "wu_grant", "wu_start", "wu_tab", "setup_temp_directory",
      "sg_push", "sg_set_debug_app", "sg_record_flag", "sg_record_path",
      "kill_relevant_processes", "start_simpleperf_recording", "su_force_stop",
      "su_grant", "su_start", "trigger_settle", "capture_gecko_profile",
      "collect_wait", "collect_pull", "process_simpleperf_data", "merge_profiles",
      "handle_output" }

\* Steps that only sleep, wait or assign raise no Exception.
RaisingSteps ==
    TrySteps \ { "sg_record_flag", "sg_record_path", "trigger_settle",
                 "collect_wait", "handle_output" }

\* Ctrl-C while a step of the try body runs.
Interrupt ==
    /\ pc \in TrySteps
    /\ fault' = [kind |-> "KeyboardInterrupt", at |-> pc]
    /\ pc' = "except_KeyboardInterrupt"
    /\ UNCHANGED << reportvars, caller, tab_i, session, fieldvars, valvars, samplervars, elapsed,
                    log, cleanup_log, pending_exit, exit_status >>

\* A step of the try body raises (OSError, KeyError, ...).
StepRaises ==
    /\ pc \in RaisingSteps
    /\ fault' = [kind |-> "Exception", at |-> pc]
    /\ pc' = "except_Exception"
    /\ UNCHANGED << reportvars, caller, tab_i, session, fieldvars, valvars, samplervars, elapsed,
                    log, cleanup_log, pending_exit, exit_status >>

\* ------------------------------------------------- the handlers of run()
\* Mutant: the cleanup is the last statement of the try body, not a finally
\* clause, so the Exception handler leaves without it.
finally_skipped_on_error(kind) ==
    IF kind = "Exception" THEN "cleanup_temp_directory" ELSE "cleanup_device_state"

\* run(): the finally clause follows either handler.
finally_entry(kind) == "cleanup_device_state"

\* Mutant: the Exception handler logs and does not call sys.exit.
except_Exception_no_exit == << >>

\* except Exception: sys.exit(1) leaves a SystemExit pending.
except_Exception_exit == << ErrorExitCode >>

except_Exception ==
    /\ pc = "except_Exception"
    /\ pending_exit' = except_Exception_exit
    /\ logged' = logged \cup {[level |-> "error", msg |-> "Error during automation"]}
    /\ pc' = finally_entry("Exception")
    /\ UNCHANGED << nonzero, caller, tab_i, session, fieldvars, valvars, samplervars, elapsed,
                    log, cleanup_log, fault, exit_status >>

\* Mutant: the KeyboardInterrupt handler exits like the Exception handler.
except_KeyboardInterrupt_exit_1 == << ErrorExitCode >>

\* except KeyboardInterrupt: logs, and run() goes on to return normally.
except_KeyboardInterrupt_exit == << >>

except_KeyboardInterrupt ==
    /\ pc = "except_KeyboardInterrupt"
    /\ pending_exit' = except_KeyboardInterrupt_exit
    /\ pc' = finally_entry("KeyboardInterrupt")
    /\ UNCHANGED << reportvars, caller, tab_i, session, fieldvars, valvars, samplervars, elapsed,
                    log, cleanup_log, fault, exit_status >>

\* ---------------------------------------------------------------- cleanup
\* Mutant: the debug-app flag is cleared whether or not it was set.
clear_always(flag) == TRUE

\* Mutant: the pushed file is never deleted.
rm_never(path) == FALSE

\* Mutant: the try blocks of cleanup catch nothing.
cleanup_catches_nothing(exc) == FALSE

\* cleanup_device_state: the guards of its two reversals.
clear_needed(flag) == flag

rm_needed(path) == path # None

\* cleanup_device_state: both try blocks catch Exception.
cleanup_catches(exc) == exc = "Exception"

\* cleanup_device_state: after the rm the code assigns debug_app_set, and
\* leaves yaml_file_path as it was.
path_after_rm(path) == path

\* One run of cleanup_device_state from the fields flag and path, when the
\* clear command raises (cr) and when the rm command raises (rr).
CleanupRun(flag, path, cr, rr) ==
    LET clear == clear_needed(flag)
        clear_exc == clear /\ cr
        clear_escapes == clear_exc /\ ~cleanup_catches("Exception")
        flag1 == IF clear /\ ~clear_exc THEN FALSE ELSE flag
        rm == ~clear_escapes /\ rm_needed(path)
        rm_exc == rm /\ rr
        rm_escapes == rm_exc /\ ~cleanup_catches("Exception")
        flag2 == IF rm /\ ~rm_exc THEN FALSE ELSE flag1
        path2 == IF rm /\ ~rm_exc THEN path_after_rm(path) ELSE path
    IN  [ flag |-> flag2, path |-> path2,
          cmds |-> (IF clear THEN << "am clear-debug-app" >> ELSE << >>)
                   \o (IF rm THEN << "rm" >> ELSE << >>),
          pre_flag |-> flag, pre_path |-> path,
          clear_raised |-> clear_exc, rm_raised |-> rm_exc,
          returned |-> ~(clear_escapes \/ rm_escapes), at |-> pc ]

\* cleanup_device_state: the warnings of its two except clauses.
CleanupWarnings(r) ==
    { [level |-> "warning", msg |-> "Failed to clear debug app state"] :
        x \in { y \in {r.clear_raised} : y /\ cleanup_catches("Exception") } }
    \cup
    { [level |-> "warning", msg |-> "Failed delete yaml file"] :
        x \in { y \in {r.rm_raised} : y /\ cleanup_catches("Exception") } }

\* An invocation of cleanup_device_state, continuing at to when it returns.
Cleanup(to) ==
    /\ \E cr, rr \in BOOLEAN :
         LET r == CleanupRun(debug_app_set, yaml_file_path, cr, rr)
         IN  /\ debug_app_set' = r.flag
             /\ yaml_file_path' = r.path
             /\ Issue({ r.cmds[i] : i \in 1..Len(r.cmds) })
             /\ cleanup_log' = Append(cleanup_log, r)
             /\ logged' = logged \cup CleanupWarnings(r)
             /\ IF r.returned
                THEN /\ pc' = to
                     /\ UNCHANGED exit_status
                ELSE /\ pc' = "exited"
                     /\ exit_status' = << ErrorExitCode >>
    /\ UNCHANGED << nonzero, caller, tab_i, session, temp_dir, output_path, valvars,
                    samplervars, elapsed, fault, pending_exit >>

\* finally: self.cleanup_device_state()
cleanup_device_state ==
    /\ pc = "cleanup_device_state"
    /\ Cleanup("cleanup_temp_directory")

\* finally: self.cleanup_temp_directory(); then the pending SystemExit ends
\* the process, or run() and main() return.
cleanup_temp_directory ==
    /\ pc = "cleanup_temp_directory"
    /\ pc' = "exited"
    /\ exit_status' = IF pending_exit = << >> THEN << 0 >> ELSE pending_exit
    /\ UNCHANGED << reportvars, caller, tab_i, session, fieldvars, valvars, samplervars, elapsed,
                    log, cleanup_log, fault, pending_exit >>

\* ---------------------------------------------------------- specification
Next ==
    \/ validate_environment
    \/ kill_relevant_processes
    \/ run_warmup_force_stop
    \/ run_warmup_pm_clear
    \/ run_warmup_grant
    \/ run_warmup_start
    \/ run_warmup_tab
    \/ setup_temp_directory
    \/ setup_gecko_push
    \/ setup_gecko_set_debug_app
    \/ setup_gecko_record_flag
    \/ setup_gecko_record_path
    \/ start_simpleperf_recording
    \/ run_startup_force_stop
    \/ run_startup_grant
    \/ run_startup_start
    \/ trigger_settle
    \/ capture_gecko_profile
    \/ collect_wait
    \/ collect_pull
    \/ process_simpleperf_data
    \/ merge_profiles
    \/ handle_output
    \/ SamplerFinish
    \/ SamplerFail
    \/ Interrupt
    \/ StepRaises
    \/ except_Exception
    \/ except_KeyboardInterrupt
    \/ cleanup_device_state
    \/ cleanup_temp_directory

Spec == Init /\ [][Next]_vars

\* The steps of the coordinator: what run() does when no fault is raised
\* from outside, and its handlers.
Coordinator ==
    \/ validate_environment
    \/ kill_relevant_processes
    \/ run_warmup_force_stop
    \/ run_warmup_pm_clear
    \/ run_warmup_grant
    \/ run_warmup_start
    \/ run_warmup_tab
    \/ setup_temp_directory
    \/ setup_gecko_push
    \/ setup_gecko_set_debug_app
    \/ setup_gecko_record_flag
    \/ setup_gecko_record_path
    \/ start_simpleperf_recording
    \/ run_startup_force_stop
    \/ run_startup_grant
    \/ run_startup_start
    \/ trigger_settle
    \/ capture_gecko_profile
    \/ collect_wait
    \/ collect_pull
    \/ process_simpleperf_data
    \/ merge_profiles
    \/ handle_output
    \/ except_Exception
    \/ except_KeyboardInterrupt
    \/ cleanup_device_state
    \/ cleanup_temp_directory

\* Every foreground command and every sleep returns, so the coordinator
\* takes its next step whenever it has one; nothing is assumed of the
\* sampler, which may never exit.
SpecLive == Init /\ [][Next]_vars /\ WF_vars(Coordinator)

\* A second invocation of cleanup_device_state right after the first.
cleanup_device_state_again ==
    /\ pc = "cleanup_temp_directory"
    /\ Len(cleanup_log) = 1
    /\ Cleanup("cleanup_temp_directory")

NextTwice == Next \/ cleanup_device_state_again

SpecTwice == Init /\ [][NextTwice]_vars

\* -------------------------------------------------------- the constructor
\* A TOML value of the symbol keys: a string (its text in v[1]) or an
\* array of strings (its elements in v).
Str(v) == [type |-> "str", v |-> << v >>]

List(v) == [type |-> "list", v |-> v]

\* The text of a string value.
Text(x) == x.v[1]

\* A table without keys.
NoKeys == [k \in {} |-> None]

\* dict assignment: t[k] = v.
Put(t, k, v) == (k :> v) @@ t

\* What a configuration file can say about one symbol source with the
\* legacy key s and the plural key p; the strings stand for any value.
PairTables(s, p) ==
    { NoKeys,
      s :> Str("symbols"),
      s :> Str(""),
      p :> Str("~/sym"),
      p :> List(<< "/opt/sym", "" >>),
      (s :> Str("symbols")) @@ (p :> List(<< "/opt/sym" >>)),
      (s :> Str("symbols")) @@ (p :> Str("~/sym")) }

\* What it can say about duration and frequency.
NumericTables ==
    { "frequency" :> 1000,
      ("frequency" :> 1000) @@ ("duration" :> 8),
      ("frequency" :> 1000) @@ ("duration" :> 0),
      "frequency" :> 0 }

\* _load_config: the [android_profiling] tables read.
TomlTables ==
    { ("package_name" :> "org.mozilla.fenix") @@ n @@ a @@ b @@ c :
        n \in NumericTables,
        a \in PairTables("symbol_dir", "symbol_dirs"),
        b \in PairTables("breakpad_symbol_server", "breakpad_symbol_servers"),
        c \in PairTables("breakpad_symbol_dir", "breakpad_symbol_dirs") }

\* main: --duration and --frequency take any int (type=int).
OverrideArgs ==
    { NoKeys, "duration" :> 30, "duration" :> 0, "duration" :> 0 - 5,
      "frequency" :> 4000, "frequency" :> 0 - 1,
      ("duration" :> 30) @@ ("frequency" :> 4000) }

ConstructorArgs ==
    { [device |-> None, java |-> FALSE, with_warmup |-> FALSE, profile_warmup |-> pw] @@ o :
        pw \in BOOLEAN, o \in OverrideArgs }

\* Mutant: the legacy key is looked at first.
NormalizeLegacyFirst(t, s, p) ==
    IF s \in DOMAIN t THEN List(<< Text(t[s]) >>)
    ELSE IF p \in DOMAIN t
    THEN (IF t[p].type = "str" THEN List(<< Text(t[p]) >>) ELSE t[p])
    ELSE List(<< >>)

\* _normalize_symbol_config: the list stored under the plural key p.
NormalizePair(t, s, p) ==
    IF p \in DOMAIN t
    THEN (IF t[p].type = "str" THEN List(<< Text(t[p]) >>) ELSE t[p])
    ELSE IF s \in DOMAIN t THEN List(<< Text(t[s]) >>)
    ELSE List(<< >>)

\* _normalize_symbol_config, its three blocks in order, in place.
normalize_symbol_config(t) ==
    LET t1 == Put(t, "symbol_dirs", NormalizePair(t, "symbol_dir", "symbol_dirs"))
        t2 == Put(t1, "breakpad_symbol_servers",
                  NormalizePair(t1, "breakpad_symbol_server", "breakpad_symbol_servers"))
    IN  Put(t2, "breakpad_symbol_dirs",
            NormalizePair(t2, "breakpad_symbol_dir", "breakpad_symbol_dirs"))

\* expand_path, for the paths modelled: ~ is the home directory, a relative
\* path is relative to the directory of the script.
expand_path(path) ==
    IF path = "~/sym" THEN "/home/user/sym"
    ELSE IF path = "symbols" THEN "/opt/fenix-startup-profiling/symbols"
    ELSE path

\* __init__: `... for d in list if d`.
NonEmpty(x) == x # ""

\* __init__: [expand_path(d) for d in list if d].
ExpandAll(list) ==
    LET kept == SelectSeq(list, NonEmpty)
    IN  [ i \in 1..Len(kept) |-> expand_path(kept[i]) ]

InitConfig ==
    /\ pc = "load_config"
    /\ caller = "prerun"
    /\ tab_i = 1
    /\ args \in ConstructorArgs
    /\ with_warmup = args.with_warmup
    /\ profile_warmup = args.profile_warmup
    /\ use_java = args.java
    /\ toml_table \in TomlTables
    /\ config = NoKeys
    /\ symbol_dirs = << >>
    /\ breakpad_symbol_dirs = << >>
    /\ breakpad_symbol_servers = << >>
    /\ device_id = args.device
    /\ debug_app_set = FALSE
    /\ yaml_file_path = None
    /\ temp_dir = None
    /\ output_path = "merged-profile"
    /\ validated = FALSE
    /\ verr = None
    /\ verr_list = << >>
    /\ probes = << >>
    /\ answers = << >>
    /\ sampler = "none"
    /\ sampler_rc = 0
    /\ joined = FALSE
    /\ sampler_cmd = << >>
    /\ elapsed = 0
    /\ log = {}
    /\ nonzero = {}
    /\ logged = {}
    /\ cleanup_log = << >>
    /\ fault = NoFault
    /\ pending_exit = << >>
    /\ exit_status = << >>

\* What the constructor steps leave alone.
runvars ==
    << caller, tab_i, args, toml_table, device_id, with_warmup, profile_warmup,
       use_java, fieldvars, valvars, samplervars, elapsed, log, reportvars, endvars >>

\* __init__: self.config = self._load_config(config_path)
load_config ==
    /\ pc = "load_config"
    /\ config' = normalize_symbol_config(toml_table)
    /\ pc' = "apply_overrides"
    /\ UNCHANGED << runvars, symbol_dirs, breakpad_symbol_dirs, breakpad_symbol_servers >>

\* __init__: the default duration and the command-line overrides.
apply_overrides ==
    /\ pc = "apply_overrides"
    /\ config' = Put(Put(config, "duration", ResolveDuration(config, args, profile_warmup)),
                     "frequency", ResolveFrequency(config, args))
    /\ pc' = "resolve_paths"
    /\ UNCHANGED << runvars, symbol_dirs, breakpad_symbol_dirs, breakpad_symbol_servers >>

\* __init__: the three lists the converter is given.
resolve_paths ==
    /\ pc = "resolve_paths"
    /\ symbol_dirs' = ExpandAll(config.symbol_dirs.v)
    /\ breakpad_symbol_dirs' = ExpandAll(config.breakpad_symbol_dirs.v)
    /\ breakpad_symbol_servers' = SelectSeq(config.breakpad_symbol_servers.v, NonEmpty)
    /\ pc' = "constructed"
    /\ UNCHANGED << runvars, config >>

NextConfig ==
    \/ load_config
    \/ apply_overrides
    \/ resolve_paths

SpecConfig == InitConfig /\ [][NextConfig]_vars

\* ----------------------------------------------------------------- claims
\* Where the session is, or was when the fault was raised.
Position == IF fault.kind = "none" THEN pc ELSE fault.at

WarmupSteps == { "wu_force_stop", "wu_pm_clear", "wu_grant", "wu_start", "wu_tab" }

StartupSteps == { "su_force_stop", "su_grant", "su_start" }

SetupSteps == { "sg_push", "sg_set_debug_app", "sg_record_flag", "sg_record_path" }

\* Steps of run() after setup_gecko_profiling has returned (the warm-up
\* steps are after it when trigger_app_startup called them).
AfterSetupSteps ==
    { "kill_relevant_processes", "start_simpleperf_recording", "trigger_settle",
      "capture_gecko_profile", "collect_wait", "collect_pull",
      "process_simpleperf_data", "merge_profiles", "handle_output" }
    \cup StartupSteps

EndSteps == { "cleanup_device_state", "cleanup_temp_directory", "exited" }

ReachedArmed ==
    \/ Position \in AfterSetupSteps \cup EndSteps
    \/ Position \in WarmupSteps /\ caller = "profiled"

Exited == pc = "exited"

\* validate_environment raised: one of its checks failed, or a probe could
\* not be run.
ValidationFailed ==
    \/ verr # None
    \/ fault = [kind |-> "Exception", at |-> "validate_environment"]

CmdsOf(i) == cleanup_log[i].cmds

\* C1: an Exception raised at any step from setup_gecko_profiling through
\* the processing of the capture is caught by run(): the session goes to the
\* handler and the finally clause, cleanup_device_state has run (and
\* returned) before the process exits, and the exit status is non-zero.
C1_ExceptionRunsCleanupAndExitsNonZero ==
    (fault.kind = "Exception"
        /\ (fault.at \in SetupSteps \cup AfterSetupSteps
            \/ (fault.at \in WarmupSteps /\ caller = "profiled")))
    => /\ pc \in { "except_Exception" } \cup EndSteps
       /\ Exited => /\ Len(cleanup_log) = 1
                    /\ cleanup_log[1].returned
                    /\ exit_status # << >>
                    /\ exit_status[1] # 0
       /\ ~Exited => exit_status = << >>

C1_Witness ==
    /\ Exited
    /\ fault = [kind |-> "Exception", at |-> "capture_gecko_profile"]
    /\ CmdsOf(1) = << "am clear-debug-app", "rm" >>
    /\ exit_status = << 1 >>

\* C2: when validate_environment fails, at whichever check, debug_app_set is
\* false and yaml_file_path is unset when cleanup runs and afterwards, and
\* cleanup_device_state issues no device command.
C2_FailedValidationCleansNothing ==
    ValidationFailed
    => /\ ~debug_app_set
       /\ yaml_file_path = None
       /\ \A i \in 1..Len(cleanup_log) :
            /\ CmdsOf(i) = << >>
            /\ ~cleanup_log[i].pre_flag
            /\ cleanup_log[i].pre_path = None
       /\ \A e \in log : e.at = "validate_environment"

C2_Witness ==
    /\ Exited
    /\ verr = "multiple devices"
    /\ Len(cleanup_log) = 1
    /\ CmdsOf(1) = << >>

\* C3: once setup_gecko_profiling has completed, however the session ends
\* (success, an Exception or a KeyboardInterrupt at any later step), the
\* cleanup has issued exactly one `am clear-debug-app` and exactly one `rm`
\* of the pushed file by the time the process exits, and neither command is
\* issued anywhere else.
C3_ArmedSessionClearsAndDeletesOnce ==
    /\ (ReachedArmed /\ Exited)
       => /\ Len(cleanup_log) = 1
          /\ CmdsOf(1) = << "am clear-debug-app", "rm" >>
          /\ cleanup_log[1].pre_path = ConfigPathOnDevice
    /\ \A e \in log :
         e.cmd \in { "am clear-debug-app", "rm" } => e.at = "cleanup_device_state"

C3_Witness ==
    /\ Exited
    /\ fault = [kind |-> "KeyboardInterrupt", at |-> "collect_wait"]
    /\ CmdsOf(1) = << "am clear-debug-app", "rm" >>

\* C4: a second invocation of cleanup_device_state, right after the first,
\* issues no device command: neither the clear nor the rm. Stated for a first
\* invocation whose commands did not raise, so that both reversals were done.
C4_SecondCleanupIssuesNothing ==
    (Len(cleanup_log) >= 2
        /\ ~cleanup_log[1].clear_raised /\ ~cleanup_log[1].rm_raised)
    => CmdsOf(2) = << >>

\* C5: cleanup_device_state never propagates a failure, and its reversals
\* are independent: with both the flag and the file recorded, the delete is
\* attempted also when the clear raised, and cleanup returns normally when
\* either or both raised.
C5_CleanupSwallowsAndReversesIndependently ==
    \A i \in 1..Len(cleanup_log) :
        LET r == cleanup_log[i]
        IN  /\ r.returned
            /\ (r.pre_flag /\ r.pre_path # None)
               => r.cmds = << "am clear-debug-app", "rm" >>
            /\ pc # "exited" => exit_status = << >>
            /\ (Exited /\ fault.kind # "Exception") => exit_status = << 0 >>

C5_Witness ==
    /\ Exited
    /\ Len(cleanup_log) = 1
    /\ cleanup_log[1].clear_raised
    /\ cleanup_log[1].rm_raised
    /\ CmdsOf(1) = << "am clear-debug-app", "rm" >>
    /\ fault.kind = "none"
    /\ exit_status = << 0 >>

\* C6: cleanup_device_state is invoked once per session and only after the
\* terminal outcome: never while a step of the try body or a handler is
\* still to run, and always before the process exits, also when the
\* validation failed.
C6_CleanupOnceAfterTerminal ==
    /\ Len(cleanup_log) <= 1
    /\ pc \in TrySteps \cup { "except_Exception", "except_KeyboardInterrupt",
                              "cleanup_device_state" }
       => cleanup_log = << >>
    /\ pc \in { "cleanup_temp_directory", "exited" } => Len(cleanup_log) = 1
    /\ \A e \in log : e.at \in TrySteps \cup { "cleanup_device_state" }

C6_Witness ==
    /\ Exited
    /\ ValidationFailed
    /\ Len(cleanup_log) = 1
    /\ exit_status = << 1 >>

\* Read-only probes of validate_environment.
ProbeCmds ==
    { "samply import --help", "adb version", "adb devices", "su echo test",
      "ls simpleperf", "which simpleperf" }

\* C7: no command that mutates the device is issued before
\* validate_environment has returned successfully; until then only the
\* read-only probes are issued, also when --with-warmup is given.
C7_NoMutationBeforeValidation ==
    \A e \in log :
        /\ e.cmd \in MutatingCmds => e.validated
        /\ ~e.validated => (e.cmd \in ProbeCmds /\ e.at = "validate_environment")
        /\ e.at = "validate_environment" => e.cmd \in ProbeCmds

C7_Witness ==
    /\ with_warmup
    /\ \E e \in log :
         /\ e.cmd = "pm clear"
         /\ e.sampler = "none"
         /\ e.validated
    /\ \E e \in log : e.cmd = "which simpleperf"

\* C8: a KeyboardInterrupt during any step of the try body, the blocking
\* wait on the sampler included, leads to the handler and the finally
\* clause: cleanup_device_state has run when the process exits, and the exit
\* status is 0; after an Exception it is non-zero.
C8_InterruptCleansUpAndExitsZero ==
    /\ fault.kind = "KeyboardInterrupt"
       => /\ pc \in { "except_KeyboardInterrupt" } \cup EndSteps
          /\ Exited => (Len(cleanup_log) = 1 /\ exit_status = << 0 >>)
    /\ (fault.kind = "Exception" /\ Exited) => exit_status # << 0 >>

C8_Witness ==
    /\ Exited
    /\ fault = [kind |-> "KeyboardInterrupt", at |-> "collect_wait"]
    /\ sampler = "running"
    /\ Len(cleanup_log) = 1
    /\ exit_status = << 0 >>

\* C9: trigger_app_startup does not return earlier than config.duration
\* seconds after the sampler was spawned, in either scenario.
C9_TriggerReturnsAfterDuration ==
    pc = "capture_gecko_profile" => elapsed >= config.duration

\* Commands issued between the spawn of the sampler and the join.
BetweenSpawnAndJoin(e) ==
    /\ e.at \in WarmupSteps \cup StartupSteps \cup { "capture_gecko_profile" }
    /\ e.sampler # "none"

\* C10 as stated: every device command issued after the spawn and before
\* the join executes while the sampler process is still running.
C10_CommandsRunWhileSamplerRuns ==
    \A e \in log : BetweenSpawnAndJoin(e) => e.sampler = "running"

\* C10 amended: the commands of the scenario and the stop-and-upload read
\* are issued with the sampler spawned and not yet joined, but the sampler
\* process need not be running any more: in the direct scenario the
\* stop-and-upload read is issued no earlier than config.duration plus the
\* grace delay after the spawn.
C10_CommandsRunBeforeJoin ==
    /\ \A e \in log :
         e.at \in StartupSteps \cup { "capture_gecko_profile" }
         => (e.sampler \in { "running", "exited" } /\ ~e.joined)
    /\ \A e \in log :
         (e.at \in WarmupSteps /\ e.sampler # "none") => ~e.joined
    /\ (pc = "capture_gecko_profile" /\ ~profile_warmup)
       => elapsed >= config.duration + GraceDelay(use_java)

C10_Witness ==
    /\ ~profile_warmup
    /\ sampler_rc = 0
    /\ \E e \in log :
         /\ e.cmd = "content read stop-and-upload"
         /\ e.sampler = "exited"
         /\ ~e.joined

\* The commands of a session, by name.
Issued(c) == \E e \in log : e.cmd = c

\* C11: the sampler is spawned at most once in a session, and never while
\* a sampler spawned before exists: the spawn command is only ever issued
\* with no sampler process created yet.
C11_SamplerSpawnedOnce ==
    /\ \A e \in log :
         e.cmd = "simpleperf record"
         => (e.at = "start_simpleperf_recording" /\ e.sampler = "none" /\ ~e.joined)
    /\ sampler # "none" => Issued("simpleperf record")
    /\ pc = "start_simpleperf_recording" => sampler = "none"

C11_Witness ==
    /\ Exited
    /\ Issued("simpleperf record")
    /\ sampler = "exited"
    /\ joined
    /\ fault = NoFault

\* What collect_simpleperf_data and the two processing steps issue.
AfterJoinCmds ==
    { "pull su-perf.data", "find", "pull aux", "samply import", "node merge" }

\* C12: the pull of the capture file, the search for and the pulls of the
\* auxiliary files, the conversion and the merge are issued only after the
\* join, and whatever is issued after the join finds the sampler exited.
C12_CollectionAfterSamplerExit ==
    /\ \A e \in log : e.cmd \in AfterJoinCmds => (e.joined /\ e.sampler = "exited")
    /\ \A e \in log : e.joined => e.sampler = "exited"
    /\ joined => sampler = "exited"

C12_Witness ==
    /\ Issued("pull su-perf.data")
    /\ Issued("pull aux")
    /\ Issued("samply import")
    /\ Issued("node merge")
    /\ sampler_rc = 0

\* The tools that exited with a non-zero status.
CaptureFailed == "content read stop-and-upload" \in nonzero

ConvertFailed == "samply import" \in nonzero

MergeFailed == "node merge" \in nonzero

\* C13: a stop-and-upload read that exits non-zero raises nothing in
\* capture_gecko_profile and is printed as a warning; a session that meets
\* no other fault then joins the sampler, collects, converts, merges and
\* exits with status 0.
C13_FailedStopAndUploadNotFatal ==
    CaptureFailed =>
      /\ fault.at # "capture_gecko_profile"
      /\ [level |-> "stdout", msg |-> "Warning: Failed to stop profiler"] \in logged
      /\ fault = NoFault => pc \notin { "capture_gecko_profile", "except_Exception" }
      /\ (Exited /\ fault = NoFault)
         => /\ joined
            /\ Issued("pull su-perf.data")
            /\ Issued("samply import")
            /\ Issued("node merge")
            /\ exit_status = << 0 >>

C13_Witness ==
    /\ CaptureFailed
    /\ Exited
    /\ joined
    /\ Issued("node merge")
    /\ ~MergeFailed
    /\ exit_status = << 0 >>

\* C14: when the converter exits non-zero the session fails there: the
\* merge tool is never invoked, handle_output is never reached, and the
\* session ends after one cleanup with a non-zero exit status.
C14_FailedConversionIsFatal ==
    ConvertFailed =>
      /\ fault = [kind |-> "Exception", at |-> "process_simpleperf_data"]
      /\ ~Issued("node merge")
      /\ ~Issued("samply load")
      /\ pc \in { "except_Exception" } \cup EndSteps
      /\ Exited => /\ Len(cleanup_log) = 1
                   /\ exit_status # << >>
                   /\ exit_status # << 0 >>

C14_Witness ==
    /\ ConvertFailed
    /\ Exited
    /\ CmdsOf(1) = << "am clear-debug-app", "rm" >>
    /\ exit_status = << 1 >>

\* __init__: the output path the session starts with.
requested_output_path == IF Has(args, "out") THEN args.out ELSE "merged-profile"

\* What a failed merge does besides the log message: nothing is raised at
\* merge_profiles, the output path becomes the converted profile path and
\* the session goes on to handle_output; a merge that did not fail leaves
\* the output path as requested.
MergeFallsBack ==
    /\ MergeFailed
       => /\ ~ConvertFailed
          /\ output_path = simpleperf_profile_path
          /\ fault.at # "merge_profiles"
          /\ fault = NoFault => pc \in { "handle_output" } \cup EndSteps
          /\ (Exited /\ fault = NoFault) => exit_status = << 0 >>
    /\ ~MergeFailed => output_path = requested_output_path

\* C15 as stated: a failed merge falls back to the converted profile, the
\* session goes on, and a warning is logged.
C15_FailedMergeLogsWarning ==
    /\ MergeFallsBack
    /\ MergeFailed
       => [level |-> "warning", msg |-> "Failed to merge profiles"] \in logged

\* C15 amended: a failed merge falls back to the converted profile, the
\* session goes on, and the failure is logged at error level.
C15_FailedMergeLogsError ==
    /\ MergeFallsBack
    /\ MergeFailed
       => [level |-> "error", msg |-> "Failed to merge profiles"] \in logged

C15_Witness ==
    /\ MergeFailed
    /\ Exited
    /\ output_path = simpleperf_profile_path
    /\ Issued("samply load")
    /\ exit_status = << 0 >>

\* The sampler command exited with a non-zero status.
SpawnFailed == sampler = "exited" /\ sampler_rc # 0

\* C16: a sampler that fails to start is fatal: the session does not go on
\* to convert and merge, and unless the user interrupts it, it exits with
\* a non-zero status.
C16_FailedSpawnIsFatal ==
    SpawnFailed =>
      /\ ~Issued("samply import")
      /\ ~Issued("node merge")
      /\ (Exited /\ fault.kind # "KeyboardInterrupt") => exit_status # << 0 >>

\* The first step of the scenario, which follows the return of the spawn.
AfterSpawn ==
    /\ caller = "profiled"
    /\ pc = IF profile_warmup THEN "wu_force_stop" ELSE "su_force_stop"

\* C17: the sampler command carries the session's duration and frequency;
\* in frame-pointer mode it carries `--call-graph fp` and the scenario
\* begins 2 seconds after the spawn, in Java-stack mode it carries `-g` and
\* the scenario begins 4 seconds after the spawn: the spawn returns after
\* the grace delay whatever the duration, not when the sampler completes.
C17_SamplerCommandAndGrace ==
    sampler # "none" =>
      /\ sampler_cmd.duration = config.duration
      /\ sampler_cmd.frequency = config.frequency
      /\ sampler_cmd.callgraph = IF use_java THEN "-g" ELSE "--call-graph fp"
      /\ AfterSpawn => elapsed = IF use_java THEN 4 ELSE 2

C17_Witness ==
    /\ AfterSpawn
    /\ use_java
    /\ sampler = "running"
    /\ sampler_cmd.callgraph = "-g"
    /\ sampler_cmd.duration = 30
    /\ sampler_cmd.frequency = 1000
    /\ elapsed = 4

\* validate_environment: its probes in program order.
ProbeOrder ==
    << "samply import --help", "adb version", "adb devices", "su echo test",
       "ls simpleperf", "which simpleperf" >>

\* The check that reads the answer a of the probe p fails. A failed ls only
\* leads to the second probe of the sampler-presence check.
CheckFailed(p, a, sel) ==
    \/ p # "ls simpleperf" /\ a.rc # 0
    \/ p = "samply import --help" /\ ~InSeq("--presymbolicate", a.out)
    \/ p = "adb devices" /\ DeviceError(ParseDevices(a.out), sel) # "ok"
    \/ p = "su echo test" /\ ~InSeq("test", a.out)

\* The errors of the check that the probe p belongs to.
ErrorsOf(p) ==
    IF p = "samply import --help" THEN { "samply failed", "no presymbolicate" }
    ELSE IF p = "adb version" THEN { "adb not found" }
    ELSE IF p = "adb devices"
    THEN { "adb devices failed", "no devices", "multiple devices", "device not found" }
    ELSE IF p = "su echo test" THEN { "no root" }
    ELSE { "simpleperf not found" }

\* C18: the probes of validate_environment are issued in the fixed order
\* converter, adb, device enumeration, su, sampler; no probe follows a
\* failed check, and the error raised is that of the failed check, which
\* is the last one probed.
C18_ValidationStopsAtFirstFailure ==
    probes # << >> =>
      LET n == Len(probes)
      IN  /\ n <= Len(ProbeOrder)
          /\ \A i \in 1..n : probes[i] = ProbeOrder[i]
          /\ \A i \in 1..(n - 1) : ~CheckFailed(probes[i], answers[i], device_id)
          /\ n = 6 => answers[5].rc # 0
          /\ n = 5 => answers[5].rc = 0
          /\ IF CheckFailed(probes[n], answers[n], device_id)
             THEN verr \in ErrorsOf(probes[n]) /\ ~validated
             ELSE verr = None /\ validated /\ n >= 5

C18_Witness ==
    /\ Exited
    /\ verr = "no root"
    /\ probes = << "samply import --help", "adb version", "adb devices", "su echo test" >>
    /\ answers[4].rc = 0

\* C19: once `adb devices` has answered, the enumeration and the selector
\* decide: no device fails, several devices and no selector fail with an
\* error that lists every enumerated device, a selector that names none of
\* them fails, and every other case passes on to the probes of the device.
C19_DeviceResolution ==
    (Len(probes) >= 3 /\ answers[3].rc = 0) =>
      LET devices == ParseDevices(answers[3].out)
          passes == verr \notin ErrorsOf("adb devices") /\ Len(probes) >= 4
      IN  /\ Len(devices) = 0 => verr = "no devices"
          /\ (Len(devices) > 1 /\ device_id = None)
             => (verr = "multiple devices" /\ verr_list = devices)
          /\ (Len(devices) > 0 /\ device_id # None /\ ~InSeq(device_id, devices))
             => verr = "device not found"
          /\ (Len(devices) = 1 /\ device_id = None) => passes
          /\ (device_id # None /\ InSeq(device_id, devices)) => passes

C19_Witness ==
    /\ Exited
    /\ device_id = None
    /\ verr = "multiple devices"
    /\ verr_list = << "emulator-5554", "R58M" >>

\* C20: when a device selector is configured, every command of the session
\* that runs on the device carries it.
C20_EveryDeviceCommandCarriesSelector ==
    device_id # None => \A e \in log : e.cmd \notin LocalCmds => e.dev = device_id

\* The legacy and the plural key of the three symbol sources.
SymbolPairs ==
    { << "symbol_dir", "symbol_dirs" >>,
      << "breakpad_symbol_server", "breakpad_symbol_servers" >>,
      << "breakpad_symbol_dir", "breakpad_symbol_dirs" >> }

\* The normalisation law of one pair, between the table read and the list
\* in self.config.
PairNormalized(s, p) ==
    LET list == config[p]
    IN  /\ list.type = "list"
        /\ (s \in DOMAIN toml_table /\ p \notin DOMAIN toml_table)
           => list.v = << Text(toml_table[s]) >>
        /\ (p \in DOMAIN toml_table /\ toml_table[p].type = "str")
           => list.v = << Text(toml_table[p]) >>
        /\ (p \in DOMAIN toml_table /\ toml_table[p].type = "list")
           => list.v = toml_table[p].v
        /\ (s \notin DOMAIN toml_table /\ p \notin DOMAIN toml_table)
           => list.v = << >>

\* C21: for each of the three pairs, self.config holds under the plural
\* key the one-element list of the legacy value when only the legacy key
\* is set, the one-element list of a plural string, the plural list itself
\* whenever the plural key is present, and the empty list when neither key
\* is present.
C21_SymbolConfigNormalized ==
    pc \in { "apply_overrides", "resolve_paths", "constructed" }
    => \A pair \in SymbolPairs : PairNormalized(pair[1], pair[2])

C21_Witness ==
    /\ pc = "constructed"
    /\ ~Has(toml_table, "symbol_dirs")
    /\ Has(toml_table, "symbol_dir")
    /\ toml_table["symbol_dir"] = Str("symbols")
    /\ config["symbol_dirs"] = List(<< "symbols" >>)
    /\ symbol_dirs = << "/opt/fenix-startup-profiling/symbols" >>
    /\ Has(toml_table, "breakpad_symbol_servers")
    /\ Has(toml_table, "breakpad_symbol_server")
    /\ toml_table["breakpad_symbol_servers"] = Str("~/sym")
    /\ config["breakpad_symbol_servers"] = List(<< "~/sym" >>)
    /\ "breakpad_symbol_dir" \notin DOMAIN toml_table
    /\ "breakpad_symbol_dirs" \notin DOMAIN toml_table
    /\ config["breakpad_symbol_dirs"] = List(<< >>)

\* C22: the session runs with a positive duration and a positive
\* frequency, and with the value of every --duration or --frequency given
\* on the command line.
C22_PositiveAndOverrideWins ==
    pc = "constructed" =>
      /\ config.duration > 0
      /\ config.frequency > 0
      /\ Has(args, "duration") => config.duration = args.duration
      /\ Has(args, "frequency") => config.frequency = args.frequency

\* The coordinator blocked in simpleperf_proc.wait() on a running sampler.
HungOnJoin == pc = "collect_wait" /\ sampler = "running"

CleanupIssued(c) == \E i \in 1..Len(cleanup_log) : InSeq(c, CmdsOf(i))

\* C24: whatever setup_gecko_profiling did to the device is known to the
\* cleanup: a session that pushed the config file ends with the file
\* deleted by the cleanup, and a session that set the debug app ends with
\* the flag cleared by the cleanup, wherever it failed or was interrupted.
C24_SetupIsReversedByCleanup ==
    Exited =>
      /\ Issued("push") => CleanupIssued("rm")
      /\ Issued("am set-debug-app") => CleanupIssued("am clear-debug-app")

\* C25: no sampler is running when the cleanup runs or when the process
\* exits.
C25_NoSamplerRunningAtCleanup ==
    pc \in EndSteps => sampler # "running"

\* The sampler binaries that the probes of validate_environment found: the
\* well-known path when ls succeeded, the one on the PATH when which did.
ValidatedBinaries ==
    { "/data/local/tmp/simpleperf" :
        i \in { j \in 1..Len(probes) : probes[j] = "ls simpleperf" /\ answers[j].rc = 0 } }
    \cup
    { "simpleperf" :
        i \in { j \in 1..Len(probes) : probes[j] = "which simpleperf" /\ answers[j].rc = 0 } }

\* C26: the sampler binary that the spawn invokes is one that the
\* validation found on the device.
C26_SpawnedBinaryWasValidated ==
    sampler # "none" => sampler_cmd.binary \in ValidatedBinaries

====
